---- MODULE Spec2Model ----
(***************************************************************************)
(* Universe Sandbox: the N-body stepper of components/UniverseSandbox.tsx  *)
(* (Scene.useFrame) and the registry operations of UniverseSandbox.        *)
(*                                                                         *)
(* Numbers.  The program computes in IEEE doubles; the model computes in   *)
(* integers.  Lengths are the program's scene units (the preset positions  *)
(* and radii are the literals of the source).  A velocity is held in scene *)
(* units per simulated day, so that TIME_SCALE * SCALE is 1.  Masses are   *)
(* held in units of 1e27 kg, a positive mass being at least 1, and G is    *)
(* 100 in the model: gravity is far weaker than the program's, so that     *)
(* every value stays within TLC's 32-bit integers.  The properties are     *)
(* about which bodies merge, which terms enter a force and which objects   *)
(* are shared, not about the shape of an orbit.  Every division truncates  *)
(* toward zero, square and cube roots are rounded down.  The one           *)
(* non-finite value the program can produce from non-negative masses, NaN  *)
(* (0/0), is modelled: a NaN vector is NaNVec and a NaN length is -1.      *)
(*                                                                         *)
(* Objects.  A step works on JavaScript objects: body records, Vector3     *)
(* instances and trail arrays.  They live in a heap (objs, vecs, arrs)     *)
(* and are named by their addresses, so that aliasing between the snapshot *)
(* handed to the step and the snapshot it returns is observable.           *)
(***************************************************************************)
EXTENDS Integers, Sequences, FiniteSets, TLC

VARIABLES bodies, closure, pending, paused, timeScale, collisionsEnabled,
          newBodyMass, newBodyRadius, frames, adds, last

vars == <<bodies, closure, pending, paused, timeScale, collisionsEnabled,
          newBodyMass, newBodyRadius, frames, adds, last>>

(* ---------------------------------------------------------------- bounds *)
\* frames run
MaxFrames == 2
\* bodies added to a scenario before it is stepped
MaxAdds == 2
\* clicks on "Add Body" in the running application
MaxClicks == 1
\* updates of bodies that UniverseSandbox has not rendered yet when a frame runs
MaxPending == 1
\* frames the lone body of LoneBodyAfter has run
LongRun == 1000

(* ------------------------------------------------------------- constants *)
G == 100
SCALE == 1
TIME_SCALE == 1
TrailCap == 1000
TrailThreshold == 1

(* ---------------------------------------------------------------- numbers *)
Abs(x) == IF x < 0 THEN -x ELSE x

Min(a, b) == IF a < b THEN a ELSE b

\* a / b of two finite numbers with b # 0, truncated toward zero
Quot(a, b) ==
    IF (a >= 0) = (b > 0) THEN Abs(a) \div Abs(b) ELSE -(Abs(a) \div Abs(b))

RECURSIVE SqrtSearch(_, _, _)
SqrtSearch(n, lo, hi) ==
    IF lo >= hi THEN lo
    ELSE LET mid == (lo + hi + 1) \div 2
         IN  IF mid * mid <= n THEN SqrtSearch(n, mid, hi)
             ELSE SqrtSearch(n, lo, mid - 1)

\* Math.sqrt, rounded down
Sqrt(n) == SqrtSearch(n, 0, Min(n, 46340))

RECURSIVE CbrtSearch(_, _, _)
CbrtSearch(n, lo, hi) ==
    IF lo >= hi THEN lo
    ELSE LET mid == (lo + hi + 1) \div 2
         IN  IF mid * mid * mid <= n THEN CbrtSearch(n, mid, hi)
             ELSE CbrtSearch(n, lo, mid - 1)

\* Math.cbrt, rounded toward zero (the cube root of a negative is negative)
Cbrt(n) ==
    IF n >= 0 THEN CbrtSearch(n, 0, Min(n, 1290))
    ELSE -CbrtSearch(-n, 0, Min(-n, 1290))

\* Math.pow(x, 3)
Pow3(x) == x * x * x

(* ------------------------------------------------------- THREE.Vector3 *)
NaNVec == <<>>
NaNLen == -1

IsNaN(v) == v = NaNVec

Zero3 == <<0, 0, 0>>

VAdd(a, b) ==
    IF IsNaN(a) \/ IsNaN(b) THEN NaNVec
    ELSE <<a[1] + b[1], a[2] + b[2], a[3] + b[3]>>

VSub(a, b) ==
    IF IsNaN(a) \/ IsNaN(b) THEN NaNVec
    ELSE <<a[1] - b[1], a[2] - b[2], a[3] - b[3]>>

\* multiplyScalar by a finite integer
VScale(v, k) == IF IsNaN(v) THEN NaNVec ELSE <<v[1] * k, v[2] * k, v[3] * k>>

\* lengthSq; the length itself is its square root
LenSq(v) == IF IsNaN(v) THEN NaNLen ELSE v[1] * v[1] + v[2] * v[2] + v[3] * v[3]

\* length() < r, exact: a NaN length compares false with everything
LengthBelow(v, r) == LenSq(v) # NaNLen /\ r > 0 /\ LenSq(v) < r * r

\* length() > r for r >= 0, exact
LengthAbove(v, r) == LenSq(v) # NaNLen /\ LenSq(v) > r * r

\* divideScalar: 0/0 is NaN; a nonzero component over 0 would be an
\* infinity, which no registry of non-negative masses produces (the force
\* on a body of mass 0 is 0)
VDiv(v, k) ==
    IF IsNaN(v) \/ k = 0 THEN NaNVec
    ELSE <<Quot(v[1], k), Quot(v[2], k), Quot(v[3], k)>>

(* ------------------------------------------------------------- registry *)
\* interface CelestialBody, as a value (objects dereferenced)
Body(id, name, position, velocity, mass, radius, color, type, trail) ==
    [id |-> id, name |-> name, position |-> position, velocity |-> velocity,
     mass |-> mass, radius |-> radius, color |-> color, type |-> type,
     trail |-> trail]

Range(s) == {s[k] : k \in 1..Len(s)}

Ids(bs) == {bs[k].id : k \in 1..Len(bs)}

RECURSIVE SumMass(_)
SumMass(bs) == IF bs = <<>> THEN 0 ELSE Head(bs).mass + SumMass(Tail(bs))

\* the body of registry bs whose id is id
ById(bs, id) == bs[CHOOSE k \in 1..Len(bs) : bs[k].id = id]

(* ----------------------------------------------------------------- heap *)
EmptyHeap == [objs |-> <<>>, vecs |-> <<>>, arrs |-> <<>>]

\* the registry value bs as objects: body k is object k, with its own
\* position and velocity vectors, its own trail array, and one vector per
\* trail entry
RECURSIVE LoadFrom(_, _)
LoadFrom(bs, H) ==
    IF bs = <<>> THEN H
    ELSE LET b == Head(bs)
             nv == Len(H.vecs)
             refs == [k \in 1..Len(b.trail) |-> nv + 2 + k]
             obj == [b EXCEPT !.position = nv + 1, !.velocity = nv + 2,
                              !.trail = Len(H.arrs) + 1]
         IN  LoadFrom(Tail(bs),
                      [objs |-> Append(H.objs, obj),
                       vecs |-> H.vecs \o <<b.position, b.velocity>> \o b.trail,
                       arrs |-> Append(H.arrs, refs)])

Load(bs) == LoadFrom(bs, EmptyHeap)

\* the value of object a in heap H
Deref(H, a) ==
    LET o == H.objs[a]
        arr == H.arrs[o.trail]
    IN  [o EXCEPT !.position = H.vecs[o.position],
                  !.velocity = H.vecs[o.velocity],
                  !.trail = [k \in 1..Len(arr) |-> H.vecs[arr[k]]]]

DerefAll(H, list) == [k \in 1..Len(list) |-> Deref(H, list[k])]


\* the tagged addresses of the mutable containers the bodies of list hold:
\* the body records, their position and velocity vectors, their trail arrays
Containers(H, list) ==
    UNION {{<<"obj", a>>, <<"vec", H.objs[a].position>>,
            <<"vec", H.objs[a].velocity>>, <<"arr", H.objs[a].trail>>} :
           a \in Range(list)}

(* ------------------------------------------------ Scene.useFrame: a step *)
\* A stepper state S is a heap plus newBodies (list, the addresses of the
\* bodies in registry order) plus three histories kept for the properties:
\* merges (one entry per merge), terms (one entry per gravitational term
\* added to a force), done (one entry per body integrated).

\* CloneBody with position: body.position (the vector is not cloned)
CloneBodySharedPosition(S, a) ==
    LET o == S.objs[a]
        nv == Len(S.vecs)
        copy == [o EXCEPT !.velocity = nv + 1, !.trail = Len(S.arrs) + 1]
    IN  [S EXCEPT !.objs = Append(S.objs, copy),
                  !.vecs = Append(S.vecs, S.vecs[o.velocity]),
                  !.arrs = Append(S.arrs, S.arrs[o.trail]),
                  !.list = Append(S.list, Len(S.objs) + 1)]

\* { ...body, position: body.position.clone(), velocity:
\*   body.velocity.clone(), trail: [...body.trail] }, pushed on newBodies
CloneBody(S, a) ==
    LET o == S.objs[a]
        nv == Len(S.vecs)
        copy == [o EXCEPT !.position = nv + 1, !.velocity = nv + 2,
                          !.trail = Len(S.arrs) + 1]
    IN  [S EXCEPT !.objs = Append(S.objs, copy),
                  !.vecs = S.vecs \o <<S.vecs[o.position], S.vecs[o.velocity]>>,
                  !.arrs = Append(S.arrs, S.arrs[o.trail]),
                  !.list = Append(S.list, Len(S.objs) + 1)]

\* prevBodies.map(...)
RECURSIVE CopyAll(_, _)
CopyAll(S, inputs) ==
    IF inputs = <<>> THEN S
    ELSE CopyAll(CloneBody(S, Head(inputs)), Tail(inputs))

\* TotalMass without the absorbed body's mass
TotalMassOfSurvivor(massA, massB) == massA

\* bodyA.mass + bodyB.mass
TotalMass(massA, massB) == massA + massB

\* new Vector3().addScaledVector(vA, mA / totalMass)
\*              .addScaledVector(vB, mB / totalMass)
\* totalMass is 0 only when both masses are 0, and 0/0 is NaN
MergedVelocity(vA, massA, vB, massB, totalMass) ==
    IF totalMass = 0 THEN NaNVec
    ELSE VDiv(VAdd(VScale(vA, massA), VScale(vB, massB)), totalMass)

\* Math.cbrt(Math.pow(rA, 3) + Math.pow(rB, 3))
MergedRadius(radiusA, radiusB) == Cbrt(Pow3(radiusA) + Pow3(radiusB))

\* Splice off by one: newBodies.splice(j + 1, 1)
SpliceNext(list, j) == SubSeq(list, 1, j + 1) \o SubSeq(list, j + 3, Len(list))

\* newBodies.splice(j, 1), j counted from 0
Splice(list, j) == SubSeq(list, 1, j) \o SubSeq(list, j + 2, Len(list))

\* OuterIndexAfterSplice without the adjustment
OuterIndexKept(i, j) == i

\* if (j < i) i--
OuterIndexAfterSplice(i, j) == IF j < i THEN i - 1 ELSE i

\* what a merge must leave alone in the survivor
Identity(b) ==
    [id |-> b.id, name |-> b.name, color |-> b.color, type |-> b.type,
     trail |-> b.trail]

ListIds(S) == [k \in 1..Len(S.list) |-> S.objs[S.list[k]].id]

\* the collision branch: bodyA (address a, index i) absorbs bodyB (address
\* b, index j)
MergeBodies(S, a, b, i, j) ==
    LET oa == S.objs[a]
        ob == S.objs[b]
        totalMass == TotalMass(oa.mass, ob.mass)
        newVelocity == MergedVelocity(S.vecs[oa.velocity], oa.mass,
                                      S.vecs[ob.velocity], ob.mass, totalMass)
        T == [S EXCEPT !.objs[a].mass = totalMass,
                       !.objs[a].radius = MergedRadius(oa.radius, ob.radius),
                       !.vecs[oa.velocity] = newVelocity,
                       !.list = Splice(S.list, j)]
    IN  [T EXCEPT !.merges = Append(S.merges,
            [survivor |-> oa.id, removed |-> ob.id, i |-> i, j |-> j,
             iAfter |-> OuterIndexAfterSplice(i, j),
             before |-> Identity(Deref(S, a)), after |-> Identity(Deref(T, a)),
             listBefore |-> ListIds(S), listAfter |-> ListIds(T)])]

\* direction.normalize().multiplyScalar((G * mA * mB) / (distance * distance))
GravityTerm(massA, massB, direction) ==
    LET forceMagnitude == Quot(G * massA * massB, LenSq(direction))
        distance == Sqrt(LenSq(direction))
    IN  <<Quot(direction[1] * forceMagnitude, distance),
          Quot(direction[2] * forceMagnitude, distance),
          Quot(direction[3] * forceMagnitude, distance)>>

\* the inner loop of bodyA from index j on; yields the stepper state, the
\* outer index and the accumulated force
RECURSIVE Inner(_, _, _, _, _, _)
Inner(S, cfg, a, i, j, force) ==
    IF j >= Len(S.list) THEN [S |-> S, i |-> i, force |-> force]
    ELSE IF i = j THEN Inner(S, cfg, a, i, j + 1, force)
    ELSE LET b == S.list[j + 1]
             oa == S.objs[a]
             ob == S.objs[b]
             direction == VSub(S.vecs[ob.position], S.vecs[oa.position])
         IN  IF LengthBelow(direction, oa.radius + ob.radius)
                /\ cfg.collisionsEnabled
             THEN Inner(MergeBodies(S, a, b, i, j), cfg, a,
                        OuterIndexAfterSplice(i, j), j + 1, force)
             ELSE IF LengthAbove(direction, 0)
             THEN Inner([S EXCEPT !.terms = @ \cup
                            {[a |-> oa.id, b |-> ob.id,
                              posB |-> S.vecs[ob.position]]}],
                        cfg, a, i, j + 1,
                        VAdd(force, GravityTerm(oa.mass, ob.mass, direction)))
             ELSE Inner(S, cfg, a, i, j + 1, force)

\* TrailPush without the eviction
TrailPushOnly(arr, ref) == Append(arr, ref)

\* trail.push(ref); if (trail.length > 1000) trail.shift()
TrailPush(arr, ref) ==
    LET pushed == Append(arr, ref)
    IN  IF Len(pushed) > TrailCap THEN Tail(pushed) ELSE pushed

\* the bodies other than a that are in newBodies at a distance > 0 from a
Others(S, a) ==
    {S.objs[b].id : b \in {x \in Range(S.list) : x # a /\
        LengthAbove(VSub(S.vecs[S.objs[x].position],
                         S.vecs[S.objs[a].position]), 0)}}

\* "Update velocity and position" and "Update trail" of bodyA
Integrate(S, cfg, a, force) ==
    LET o == S.objs[a]
        dt == TIME_SCALE * cfg.timeScale
        acceleration == VDiv(force, o.mass)
        velocity == VAdd(S.vecs[o.velocity], VScale(acceleration, dt))
        position == VAdd(S.vecs[o.position], VScale(velocity, dt * SCALE))
        arr == S.arrs[o.trail]
        record == Len(arr) = 0
                  \/ LengthAbove(VSub(position, S.vecs[arr[Len(arr)]]),
                                 TrailThreshold)
        moved == [S EXCEPT !.vecs[o.velocity] = velocity,
                           !.vecs[o.position] = position]
        entry == [id |-> o.id,
                  contributors |-> {t.b : t \in {u \in S.terms : u.a = o.id}},
                  others |-> Others(S, a)]
    IN  IF record
        THEN [moved EXCEPT !.vecs = Append(@, position),
                           !.arrs[o.trail] = TrailPush(arr, Len(moved.vecs) + 1),
                           !.done = Append(@, entry)]
        ELSE [moved EXCEPT !.done = Append(@, entry)]

\* for (let i = 0; i < newBodies.length; i++)
RECURSIVE Outer(_, _, _)
Outer(S, cfg, i) ==
    IF i >= Len(S.list) THEN S
    ELSE LET a == S.list[i + 1]
             r == Inner(S, cfg, a, i, 0, Zero3)
         IN  Outer(Integrate(r.S, cfg, a, r.force), cfg, r.i + 1)

\* the updater handed to setBodies, applied to the snapshot prev: the new
\* snapshot (out), the old one as it reads afterwards (inAfter), the
\* containers both hold (shared) and the histories
Step(prev, cfg) ==
    LET H == Load(prev)
        inputs == [k \in 1..Len(prev) |-> k]
        S0 == [objs |-> H.objs, vecs |-> H.vecs, arrs |-> H.arrs,
               list |-> <<>>, merges |-> <<>>, terms |-> {}, done |-> <<>>]
        S == Outer(CopyAll(S0, inputs), cfg, 0)
    IN  [out |-> DerefAll(S, S.list),
         inAfter |-> DerefAll(S, inputs),
         shared |-> Containers(S, S.list) \cap Containers(S, inputs),
         merges |-> S.merges, terms |-> S.terms, done |-> S.done]

(* ------------------------------------------------------------ scenarios *)
\* initializeSolarSystem
SolarSystem ==
    <<Body("sun", "Sun", <<0, 0, 0>>, <<0, 0, 0>>, 1989, 20, "#FDB813", "star", <<>>),
      Body("earth", "Earth", <<150, 0, 0>>, <<0, 0, 3>>, 1, 8, "#4A90E2", "planet", <<>>),
      Body("mars", "Mars", <<228, 0, 0>>, <<0, 0, 2>>, 1, 5, "#E27B58", "planet", <<>>),
      Body("venus", "Venus", <<108, 0, 0>>, <<0, 0, 3>>, 1, 7, "#FFC649", "planet", <<>>),
      Body("jupiter", "Jupiter", <<380, 0, 0>>, <<0, 0, 1>>, 2, 15, "#C88B3A", "planet", <<>>)>>

\* initializeBinaryStars
BinaryStars ==
    <<Body("star1", "Star 1", <<-100, 0, 0>>, <<0, 0, 1>>, 1500, 18, "#FDB813", "star", <<>>),
      Body("star2", "Star 2", <<100, 0, 0>>, <<0, 0, -1>>, 1200, 16, "#FF6B6B", "star", <<>>),
      Body("planet", "Planet", <<0, 150, 0>>, <<2, 0, 0>>, 1, 8, "#4A90E2", "planet", <<>>)>>

\* initializeThreeBodyProblem
ThreeBodyProblem ==
    <<Body("body1", "Body 1", <<-100, 0, 0>>, <<0, 1, 1>>, 1000, 15, "#FDB813", "star", <<>>),
      Body("body2", "Body 2", <<100, 0, 0>>, <<0, -1, 0>>, 1000, 15, "#4A90E2", "star", <<>>),
      Body("body3", "Body 3", <<0, 150, 0>>, <<-2, 0, 0>>, 1000, 15, "#E27B58", "star", <<>>)>>

Presets == {"solar-system", "binary-stars", "three-body", "empty"}

\* the switch of handlePresetChange
Scenario(preset) ==
    CASE preset = "solar-system" -> SolarSystem
      [] preset = "binary-stars" -> BinaryStars
      [] preset = "three-body" -> ThreeBodyProblem
      [] preset = "empty" -> <<>>

(* ------------------------------------------------------ addRandomBody *)
\* Math.random() * Math.PI * 2: the angle 0
AddAngles == {[cos |-> 1, sin |-> 0]}

\* 100 + Math.random() * 200
AddDistances == {130, 155, 167}

\* the values the two number inputs can hand to setNewBodyMass and
\* setNewBodyRadius (parseFloat of the typed text; min/max are not enforced
\* on typed values)
MassInputs == {0, 1}
RadiusInputs == {0, 10}

\* useState('planet'), and typeColors[newBodyType]
NewBodyType == "planet"
NewBodyColor == "#4A90E2"

\* Math.sqrt((G * 1.989e30) / (distance * 1e9)), in scene units per day
OrbitalSpeed(distance) == Sqrt(991 \div distance)

\* the descriptor addRandomBody builds; n numbers the Date.now()/random id
NewBody(n, angle, distance, count, mass, radius) ==
    LET speed == OrbitalSpeed(distance)
    IN  Body("body-" \o ToString(n),
             NewBodyType \o " " \o ToString(count + 1),
             <<angle.cos * distance, 0, angle.sin * distance>>,
             <<-angle.sin * speed, 0, angle.cos * speed>>,
             mass, radius, NewBodyColor, NewBodyType, <<>>)

(* ------------------------------------------------------------ histories *)
\* what the last registry operation was and, for a step or an added body,
\* the snapshot it found (in) and what it did
NoStep == [inAfter |-> <<>>, shared |-> {}, merges |-> <<>>, terms |-> {},
           done |-> <<>>]

Last(op, in, step, collisions, new) ==
    [op |-> op, in |-> in, inAfter |-> step.inAfter, shared |-> step.shared,
     merges |-> step.merges, terms |-> step.terms, done |-> step.done,
     collisions |-> collisions, new |-> new]

(* ---------------------------------------------------------------- states *)
\* one body added to the empty scenario at angle 0 and distance 155, after
\* n frames at time scale 1: it moves 2 units a frame along z
LoneBodyAfter(n) ==
    LET len == Min(n, TrailCap)
        b == NewBody(1, [cos |-> 1, sin |-> 0], 155, 0, 1, 10)
    IN  <<[b EXCEPT !.position = <<155, 0, 2 * n>>,
                    !.trail = [k \in 1..len |-> <<155, 0, 2 * (n - len + k)>>]]>>

\* useState defaults
Defaults ==
    /\ paused = FALSE
    /\ timeScale = 1
    /\ collisionsEnabled = TRUE
    /\ newBodyMass = 1
    /\ newBodyRadius = 10

\* the mounted component (the effect has loaded the solar system), or the
\* lone body after a long run
Init ==
    /\ Defaults
    /\ frames = 0
    /\ \/ bodies = SolarSystem /\ adds = 0
       \/ bodies = LoneBodyAfter(LongRun) /\ adds = 1
    /\ closure = bodies
    /\ pending = 0
    /\ last = Last("load", <<>>, NoStep, FALSE, <<>>)

(* --------------------------------------------------------------- actions *)
Config == <<paused, timeScale, collisionsEnabled, newBodyMass, newBodyRadius>>

\* an update made in a click or change handler is rendered before the
\* handler's event ends: the handlers of the next event close over it
Flushed == closure' = bodies' /\ pending' = 0

\* useFrame: one frame; setBodies(updater) applies to the latest snapshot.
\* The update is made outside any event handler: React renders it later
\* (Render), and a handler that runs before that still sees the old bodies
Frame ==
    /\ frames < MaxFrames
    /\ pending < MaxPending
    /\ ~paused              \* if (paused) return; Pause is not pressed here
    /\ LET r == Step(bodies, [collisionsEnabled |-> collisionsEnabled,
                              timeScale |-> timeScale])
       IN  /\ bodies' = r.out
           /\ last' = Last("step", bodies, r, collisionsEnabled, <<>>)
    /\ frames' = frames + 1
    /\ pending' = pending + 1
    /\ UNCHANGED <<closure, Config, adds>>

\* UniverseSandbox renders again: its handlers now close over the latest
\* bodies
Render ==
    /\ pending > 0
    /\ closure' = bodies
    /\ pending' = 0
    /\ UNCHANGED <<bodies, Config, frames, adds, last>>

\* setBodies([...bodies, newBody]) with the bodies of the last render
AddRandomBody ==
    /\ adds < MaxClicks
    /\ \E angle \in AddAngles, distance \in AddDistances :
         LET newBody == NewBody(adds + 1, angle, distance, Len(closure),
                                newBodyMass, newBodyRadius)
         IN  /\ bodies' = Append(closure, newBody)
             /\ last' = Last("add", bodies, NoStep, FALSE, <<newBody>>)
    /\ adds' = adds + 1
    /\ Flushed
    /\ UNCHANGED <<Config, frames>>

\* setBodies(prev => prev.map(body => ({ ...body, trail: [] })))
ResetTrails ==
    /\ bodies' = [k \in 1..Len(bodies) |-> [bodies[k] EXCEPT !.trail = <<>>]]
    /\ last' = Last("clearTrails", <<>>, NoStep, FALSE, <<>>)
    /\ Flushed
    /\ UNCHANGED <<Config, frames, adds>>

HandlePresetChange ==
    /\ \E preset \in Presets : bodies' = Scenario(preset)
    /\ last' = Last("load", <<>>, NoStep, FALSE, <<>>)
    /\ Flushed
    /\ UNCHANGED <<Config, frames, adds>>

SetCollisionsEnabled ==
    /\ collisionsEnabled' = ~collisionsEnabled
    /\ UNCHANGED <<bodies, closure, pending, paused, timeScale,
                   newBodyMass, newBodyRadius, frames, adds, last>>

SetNewBodyMass ==
    /\ \E m \in MassInputs : newBodyMass' = m
    /\ UNCHANGED <<bodies, closure, pending, paused, timeScale,
                   collisionsEnabled, newBodyRadius, frames, adds, last>>

SetNewBodyRadius ==
    /\ \E r \in RadiusInputs : newBodyRadius' = r
    /\ UNCHANGED <<bodies, closure, pending, paused, timeScale,
                   collisionsEnabled, newBodyMass, frames, adds, last>>

\* the operations on the registry, with the form as mounted
RegistryNext ==
    \/ Frame
    \/ Render
    \/ AddRandomBody
    \/ ResetTrails
    \/ HandlePresetChange
    \/ SetCollisionsEnabled

SpecRegistry == Init /\ [][RegistryNext]_vars

\* the same with the two number inputs of the form
Next ==
    \/ RegistryNext
    \/ SetNewBodyMass
    \/ SetNewBodyRadius

Spec == Init /\ [][Next]_vars

(* ------------------------------------------- the step as a pure function *)
\* the form as mounted, or with one of its two number inputs set to 0
Forms == {[mass |-> 1, radius |-> 10], [mass |-> 0, radius |-> 10],
          [mass |-> 1, radius |-> 0]}

\* the registries a scenario and up to n clicks on "Add Body" produce, for
\* every angle, distance, mass and radius the clicks can carry
RECURSIVE Added(_, _)
Added(preset, n) ==
    IF n = 0 THEN {Scenario(preset)}
    ELSE {Append(r, NewBody(n, angle, distance, Len(r), f.mass, f.radius)) :
            r \in Added(preset, n - 1), angle \in AddAngles,
            distance \in AddDistances, f \in Forms}

Registries ==
    UNION {Added(preset, n) : preset \in Presets, n \in 0..MaxAdds}
    \cup {LoneBodyAfter(LongRun)}

\* step(bodies, dt, config) from every such registry, with collisions
\* enabled or not
StepInit ==
    /\ paused = FALSE
    /\ timeScale = 1
    /\ collisionsEnabled \in BOOLEAN
    /\ newBodyMass = 1
    /\ newBodyRadius = 10
    /\ frames = 0
    /\ adds = MaxClicks
    /\ bodies \in Registries
    /\ closure = bodies
    /\ pending = 0
    /\ last = Last("load", <<>>, NoStep, FALSE, <<>>)

StepNext == Frame \/ Render

SpecStep == StepInit /\ [][StepNext]_vars

(* ------------------------------------------------------------ properties *)
StepDone == last.op = "step"

\* the data model's invariant on a registry: positive masses and radii
Valid(bs) == \A k \in 1..Len(bs) : bs[k].mass > 0 /\ bs[k].radius > 0

\* distance(a, b) < radiusA + radiusB
Overlap(posA, radiusA, posB, radiusB) ==
    LengthBelow(VSub(posB, posA), radiusA + radiusB)

\* C1: a step conserves the sum of the masses, with collisions enabled or
\* not; two overlapping bodies stepped with collisions enabled leave one
\* body of mass massA + massB
MassConserved ==
    StepDone =>
      /\ SumMass(bodies) = SumMass(last.in)
      /\ (/\ Len(last.in) = 2
          /\ last.collisions
          /\ Overlap(last.in[1].position, last.in[1].radius,
                     last.in[2].position, last.in[2].radius))
         => /\ Len(bodies) = 1
            /\ bodies[1].mass = last.in[1].mass + last.in[2].mass

MassConservedWitness ==
    /\ StepDone
    /\ Len(last.in) = 2
    /\ Len(last.merges) = 1
    /\ Valid(last.in)

\* C2: after a step with collisions enabled no two bodies of the returned
\* registry overlap at their start-of-step positions with their returned
\* radii
NoOverlapLeft ==
    (StepDone /\ last.collisions /\ Valid(last.in)) =>
      \A x, y \in 1..Len(bodies) :
        x < y =>
          ~Overlap(ById(last.in, bodies[x].id).position, bodies[x].radius,
                   ById(last.in, bodies[y].id).position, bodies[y].radius)

ForcesFromStartPositions ==
    (StepDone /\ Valid(last.in)) =>
      \A t \in last.terms : t.posB = ById(last.in, t.b).position

\* C5: the bodies contributing a term to the force on a body are exactly the
\* other bodies in the registry at a distance > 0 from it
ForceComplete ==
    (StepDone /\ Valid(last.in)) =>
      \A n \in 1..Len(last.done) :
        last.done[n].contributors = last.done[n].others

\* C6: no trail ever holds more than 1000 entries; a step that appends to
\* a full trail evicts exactly its oldest entry and keeps the order of the
\* others
TrailBounded ==
    /\ \A k \in 1..Len(bodies) : Len(bodies[k].trail) <= 1000
    /\ StepDone =>
         \A k \in 1..Len(bodies) :
           LET old == ById(last.in, bodies[k].id).trail
               new == bodies[k].trail
           IN  \/ new = old
               \/ Len(old) < 1000 /\ new = Append(old, bodies[k].position)
               \/ Len(old) = 1000
                  /\ new = Append(Tail(old), bodies[k].position)

TrailBoundedWitness ==
    /\ StepDone
    /\ \E k \in 1..Len(bodies) :
         /\ Len(ById(last.in, bodies[k].id).trail) = 1000
         /\ bodies[k].trail # ById(last.in, bodies[k].id).trail

\* C7: every body of the registry has a positive mass and a positive
\* radius; an addBody with a zero or negative mass or radius leaves the
\* registry as it was
PositiveMassAndRadius ==
    /\ Valid(bodies)
    /\ (last.op = "add" /\ ~Valid(last.new)) => bodies = last.in

\* C8: the registry after an addBody is the latest snapshot followed by the
\* new body
AddAppendsToLatest ==
    last.op = "add" => bodies = last.in \o last.new

\* C9: a step leaves the snapshot it was given as it was and returns a
\* snapshot that shares no body record, position, velocity or trail array
\* with it
CopyOnStep ==
    StepDone => last.inAfter = last.in /\ last.shared = {}

CopyOnStepWitness ==
    /\ StepDone
    /\ last.merges # <<>>
    /\ \E k \in 1..Len(bodies) :
         /\ bodies[k].position # ById(last.in, bodies[k].id).position
         /\ bodies[k].mass # ById(last.in, bodies[k].id).mass
         /\ bodies[k].trail # ById(last.in, bodies[k].id).trail

\* C10: every body of the returned registry was integrated (velocity,
\* position, trail) exactly once in the step
IntegratedOnce ==
    StepDone =>
      \A k \in 1..Len(bodies) :
        Cardinality({n \in 1..Len(last.done) :
                       last.done[n].id = bodies[k].id}) = 1

IntegratedOnceWitness ==
    /\ StepDone
    /\ Len(bodies) >= 2
    /\ \E n \in 1..Len(last.merges) :
         /\ last.merges[n].j < last.merges[n].i
         /\ last.merges[n].iAfter + 1 < Len(last.merges[n].listAfter)
    /\ \E n \in 1..Len(last.merges) : last.merges[n].j > last.merges[n].i
====
